---- MODULE Spec2Model ----
(***************************************************************************)
(* Model of src/src/App.js, the "Legacy Code Documentation Generator".     *)
(*                                                                         *)
(* A text is a sequence of one-character strings.  Every regular           *)
(* expression of the source is modelled by an operator that matches it on  *)
(* such a sequence, character by character (word boundaries, case folding, *)
(* leftmost non-overlapping global matches).  The alphabet is ASCII.       *)
(***************************************************************************)
EXTENDS Integers, Sequences, FiniteSets, TLC

VARIABLES
  code,           \* useState('')                         App.js:25
  language,       \* useState('java')                     App.js:26
  documentation,  \* useState('')                         App.js:31
  codeStats,      \* useState({lines:0,functions:0,...})  App.js:33
  showStats,      \* useState(false)                      App.js:34
  history,        \* useState([])                         App.js:36
  qualityReport,  \* useState(null)                       App.js:42
  issues,         \* useState([])                         App.js:43
  mounted,        \* the mount effect (App.js:170) has run
  effectPending,  \* code or documentation changed and the analysis effect is due
  pendingFile,    \* texts of the files a FileReader is still reading
  analyzed,       \* the texts analyzeIssues was invoked on by the analysis effect
  isGenerating,   \* useState(false)                      App.js:32
  timers,         \* the setTimeout callbacks that have not run, oldest first
  call            \* one application of a pure function: its arguments and result

appVars == <<code, language, documentation, codeStats, showStats, history,
             qualityReport, issues, mounted, effectPending, pendingFile, analyzed,
             isGenerating, timers>>
vars == <<code, language, documentation, codeStats, showStats, history,
          qualityReport, issues, mounted, effectPending, pendingFile, analyzed,
          isGenerating, timers, call>>

(***************************************************************************)
(* Characters and the regular-expression primitives.                       *)
(***************************************************************************)
UpperCase == <<"A","B","C","D","E","F","G","H","I","J","K","L","M",
               "N","O","P","Q","R","S","T","U","V","W","X","Y","Z">>
LowerCase == <<"a","b","c","d","e","f","g","h","i","j","k","l","m",
               "n","o","p","q","r","s","t","u","v","w","x","y","z">>
Digits == {"0","1","2","3","4","5","6","7","8","9"}
\* \w of a JavaScript regular expression: [A-Za-z0-9_]
WordChars == {UpperCase[i] : i \in 1..26} \cup {LowerCase[i] : i \in 1..26}
             \cup Digits \cup {"_"}
\* \s and the characters String.prototype.trim removes (ASCII part)
WhiteSpace == {" ", "\t", "\n", "\r", "\f"}

IsWordChar(c) == c \in WordChars

\* s[i], or "" when i is outside s
At(s, i) == IF i >= 1 /\ i <= Len(s) THEN s[i] ELSE ""

\* the lower-case letter of each upper-case letter
LowerOf ==
  [c \in {UpperCase[i] : i \in 1..26} |->
     LowerCase[CHOOSE i \in 1..26 : UpperCase[i] = c]]

toLowerChar(c) == IF c \in DOMAIN LowerOf THEN LowerOf[c] ELSE c

\* String.prototype.toLowerCase
toLowerCase(s) == [i \in 1..Len(s) |-> toLowerChar(s[i])]

\* the literal lit occurs in s at position i
LitAt(s, i, lit) ==
  /\ i >= 1
  /\ i + Len(lit) - 1 <= Len(s)
  /\ \A j \in 1..Len(lit) : s[i + j - 1] = lit[j]

\* \b between s[i-1] and s[i]
Boundary(s, i) == IsWordChar(At(s, i - 1)) # IsWordChar(At(s, i))

\* /\bw\b/ matches in s at position i
WordAt(s, i, w) == LitAt(s, i, w) /\ Boundary(s, i) /\ Boundary(s, i + Len(w))

\* /lit/.test(s)
Contains(s, lit) == \E i \in 1..Len(s) : LitAt(s, i, lit)

\* /\bw\b/.test(s)
ContainsWord(s, w) == \E i \in 1..Len(s) : WordAt(s, i, w)

TrimNonEmpty_untrimmed(s) == s # <<>>

\* String.prototype.trim() is non-empty
TrimNonEmpty(s) == \E i \in 1..Len(s) : s[i] \notin WhiteSpace

RECURSIVE FlattenRange(_, _, _)
\* the concatenation of parts[a], ..., parts[b]
FlattenRange(parts, a, b) ==
  IF a > b THEN <<>>
  ELSE IF a = b THEN parts[a]
  ELSE LET m == (a + b) \div 2 IN
    FlattenRange(parts, a, m) \o FlattenRange(parts, m + 1, b)

\* the concatenation of a sequence of texts
Flatten(parts) == FlattenRange(parts, 1, Len(parts))

\* every text made of at most n of the given pieces
TextsOver(pieces, n) ==
  {Flatten(p) : p \in UNION {[1..k -> pieces] : k \in 0..n}}

Min(S) == CHOOSE x \in S : \A y \in S : x <= y

(***************************************************************************)
(* Language auto-detect, App.js:236-246                                    *)
(***************************************************************************)
LanguageTags == {"java", "python", "javascript", "cpp", "php", "csharp"}

\* the markers of the six rules, in the order of the source
pythonRule(lower) ==
  ContainsWord(lower, <<"d","e","f">>) \/ ContainsWord(lower, <<"i","m","p","o","r","t">>)
javascriptRule(lower) ==
  \/ ContainsWord(lower, <<"f","u","n","c","t","i","o","n">>)
  \/ ContainsWord(lower, <<"c","o","n","s","t">>)
  \/ ContainsWord(lower, <<"l","e","t">>)
javaRule(lower) ==
  \/ ContainsWord(lower, <<"p","u","b","l","i","c"," ","c","l","a","s","s">>)
  \/ ContainsWord(lower, <<"p","r","i","v","a","t","e">>)
  \/ ContainsWord(lower, <<"t","h","r","o","w","s">>)
csharpRule(lower) ==
  \/ ContainsWord(lower, <<"u","s","i","n","g">>)
  \/ ContainsWord(lower, <<"n","a","m","e","s","p","a","c","e">>)
  \/ ContainsWord(lower, <<"c","o","n","s","o","l","e",".","w","r","i","t","e","l","i","n","e">>)
cppRule(lower) ==
  \/ Contains(lower, <<"#","i","n","c","l","u","d","e">>)
  \/ Contains(lower, <<"s","t","d",":",":">>)
phpRule(lower) ==
  \/ Contains(lower, <<"<","?","p","h","p">>)
  \/ ContainsWord(lower, <<"e","c","h","o">>)

detectLanguage_swapped(codeText, currentLanguage) ==
  IF codeText = <<>> THEN currentLanguage
  ELSE LET lower == toLowerCase(codeText) IN
    IF javascriptRule(lower) THEN "javascript"
    ELSE IF pythonRule(lower) THEN "python"
    ELSE IF javaRule(lower) THEN "java"
    ELSE IF csharpRule(lower) THEN "csharp"
    ELSE IF cppRule(lower) THEN "cpp"
    ELSE IF phpRule(lower) THEN "php"
    ELSE currentLanguage

detectLanguage_java(codeText, currentLanguage) ==
  IF codeText = <<>> THEN "java"
  ELSE LET lower == toLowerCase(codeText) IN
    IF pythonRule(lower) THEN "python"
    ELSE IF javascriptRule(lower) THEN "javascript"
    ELSE IF javaRule(lower) THEN "java"
    ELSE IF csharpRule(lower) THEN "csharp"
    ELSE IF cppRule(lower) THEN "cpp"
    ELSE IF phpRule(lower) THEN "php"
    ELSE "java"

detectLanguage_previous(codeText, currentLanguage) ==
  IF codeText = <<>> THEN language
  ELSE LET lower == toLowerCase(codeText) IN
    IF pythonRule(lower) THEN "python"
    ELSE IF javascriptRule(lower) THEN "javascript"
    ELSE IF javaRule(lower) THEN "java"
    ELSE IF csharpRule(lower) THEN "csharp"
    ELSE IF cppRule(lower) THEN "cpp"
    ELSE IF phpRule(lower) THEN "php"
    ELSE language

\* detectLanguage reads `language` from the component's state: it is the
\* second parameter here
detectLanguage(codeText, currentLanguage) ==
  IF codeText = <<>> THEN currentLanguage
  ELSE LET lower == toLowerCase(codeText) IN
    IF pythonRule(lower) THEN "python"
    ELSE IF javascriptRule(lower) THEN "javascript"
    ELSE IF javaRule(lower) THEN "java"
    ELSE IF csharpRule(lower) THEN "csharp"
    ELSE IF cppRule(lower) THEN "cpp"
    ELSE IF phpRule(lower) THEN "php"
    ELSE currentLanguage

(***************************************************************************)
(* String.prototype.match(/re/g) and split(/re/): the matches of a regular *)
(* expression are taken leftmost first and do not overlap.  len[i] is the  *)
(* length of the match that starts at i, 0 when none starts there.         *)
(***************************************************************************)
\* the first alternative of lit1|lit2|... that matches at i decides the length
AltLen(s, i, alts) ==
  LET hit == {k \in 1..Len(alts) : LitAt(s, i, alts[k])} IN
    IF hit = {} THEN 0 ELSE Len(alts[Min(hit)])

\* the same for \bw1\b|\bw2\b|...
WordAltLen(s, i, words) ==
  LET hit == {k \in 1..Len(words) : WordAt(s, i, words[k])} IN
    IF hit = {} THEN 0 ELSE Len(words[Min(hit)])

RECURSIVE CountFrom(_, _, _)
CountFrom(len, n, i) ==
  LET rest == {j \in i..n : len[j] > 0} IN
    IF rest = {} THEN 0
    ELSE LET j == Min(rest) IN 1 + CountFrom(len, n, j + len[j])

\* (s.match(/re/g) || []).length
MatchCount(len, n) == CountFrom(len, n, 1)

RECURSIVE FragmentLengthsFrom(_, _, _)
FragmentLengthsFrom(len, n, i) ==
  LET rest == {j \in i..n : len[j] > 0} IN
    IF rest = {} THEN <<n - i + 1>>
    ELSE LET j == Min(rest) IN
      <<j - i>> \o FragmentLengthsFrom(len, n, j + len[j])

\* the lengths of the pieces of s.split(/re/)
FragmentLengths(len, n) == FragmentLengthsFrom(len, n, 1)

RECURSIVE LinesFrom(_, _)
LinesFrom(s, i) ==
  LET nl == {j \in i..Len(s) : s[j] = "\n"} IN
    IF nl = {} THEN <<SubSeq(s, i, Len(s))>>
    ELSE LET j == Min(nl) IN <<SubSeq(s, i, j - 1)>> \o LinesFrom(s, j + 1)

\* s.split('\n')
SplitLines(s) == LinesFrom(s, 1)

\* s.split('\n').length
LineCount(s) == Cardinality({j \in 1..Len(s) : s[j] = "\n"}) + 1

\* the position after \s* matched greedily from j
SkipWhiteSpace(s, j) ==
  LET stop == {k \in j..Len(s) : s[k] \notin WhiteSpace} IN
    IF stop = {} THEN Len(s) + 1 ELSE Min(stop)

\* (text.match(/\/\*|\*\/|\/\/|# /g) || []).length   App.js:260 and 311
CommentCount(text) ==
  LET alts == << <<"/","*">>, <<"*","/">>, <<"/","/">>, <<"#"," ">> >>
      len == [i \in 1..Len(text) |-> AltLen(text, i, alts)]
  IN MatchCount(len, Len(text))

(***************************************************************************)
(* Analyze issues, App.js:251-304.  An issue is [type, detail]; a detail   *)
(* is the sequence of the parts of its template string.                    *)
(***************************************************************************)
IssueKinds == <<"TODOs", "Missing Comments", "Magic Numbers", "Deprecated patterns",
                "Null checks", "Deep nesting", "Long functions">>

\* text.match(/TODO|FIXME|XXX/gi)                                App.js:256-257
TodoCount(text) ==
  LET lower == toLowerCase(text)
      alts == << <<"t","o","d","o">>, <<"f","i","x","m","e">>, <<"x","x","x">> >>
      len == [i \in 1..Len(text) |-> AltLen(lower, i, alts)]
  IN MatchCount(len, Len(text))

TodoIssue(text) ==
  LET n == TodoCount(text) IN
    IF n > 0 THEN <<[type |-> "TODOs", detail |-> <<n, " TODO/FIXME/XXX markers">>]>>
    ELSE <<>>

MaxOf(a, b) == IF a >= b THEN a ELSE b
MinOf(a, b) == IF a <= b THEN a ELSE b

MissingCommentsIssue_noMax(text) ==
  LET commentCount == CommentCount(text)
      lineCount == LineCount(text)
  IN IF commentCount < lineCount \div 10
       THEN <<[type |-> "Missing Comments",
               detail |-> <<commentCount, " comments for ", lineCount, " lines">>]>>
       ELSE <<>>

\* App.js:260-264
MissingCommentsIssue(text) ==
  LET commentCount == CommentCount(text)
      lineCount == LineCount(text)
  IN IF commentCount < MaxOf(1, lineCount \div 10)
       THEN <<[type |-> "Missing Comments",
               detail |-> <<commentCount, " comments for ", lineCount, " lines">>]>>
       ELSE <<>>

\* the positions right after a match of [0-9]{k,} that starts at j, k >= least
DigitRunEnds(s, j, least) ==
  {e \in (j + least)..(Len(s) + 1) : \A k \in j..(e - 1) : s[k] \in Digits}

MagicEnds_teens(s, i) ==
  IF At(s, i + 1) \in (Digits \ {"0"}) THEN DigitRunEnds(s, i + 2, 0) ELSE {}

\* the positions right after a match of (?:[2-9][0-9]?|[1-9][0-9]{2,}) at i+1
MagicEnds(s, i) ==
  (IF At(s, i + 1) \in (Digits \ {"0", "1"})
     THEN {e \in {i + 2, i + 3} : e = i + 2 \/ At(s, i + 2) \in Digits}
     ELSE {})
  \cup
  (IF At(s, i + 1) \in (Digits \ {"0"}) THEN DigitRunEnds(s, i + 2, 2) ELSE {})

\* the length of the match of
\* /[^A-Za-z0-9_](?:[2-9][0-9]?|[1-9][0-9]{2,})[^A-Za-z0-9_]/ at i, or 0
MagicLen(s, i) ==
  IF IsWordChar(s[i]) THEN 0
  ELSE LET ends == {e \in MagicEnds(s, i) : e <= Len(s) /\ ~IsWordChar(s[e])} IN
    IF ends = {} THEN 0 ELSE Min(ends) - i + 1

\* App.js:267-270
MagicNumbersIssue(text) ==
  LET len == [i \in 1..Len(text) |-> MagicLen(text, i)]
      n == MatchCount(len, Len(text))
  IN IF n > 0
       THEN <<[type |-> "Magic Numbers", detail |-> <<n, " suspicious numeric literals">>]>>
       ELSE <<>>

\* /auto_ptr|register|gets\s*\(/i.test(text)                     App.js:273-275
DeprecatedIssue(text) ==
  LET lower == toLowerCase(text) IN
    IF \/ Contains(lower, <<"a","u","t","o","_","p","t","r">>)
       \/ Contains(lower, <<"r","e","g","i","s","t","e","r">>)
       \/ \E i \in 1..Len(lower) :
            /\ LitAt(lower, i, <<"g","e","t","s">>)
            /\ At(lower, SkipWhiteSpace(lower, i + 4)) = "("
      THEN <<[type |-> "Deprecated patterns",
              detail |-> <<"Use of deprecated/unsafe APIs detected">>]>>
      ELSE <<>>

\* /null|NULL|None/.test(text)                                   App.js:278
hasNull(text) ==
  \/ Contains(text, <<"n","u","l","l">>)
  \/ Contains(text, <<"N","U","L","L">>)
  \/ Contains(text, <<"N","o","n","e">>)

hasNullChecks_noNeq(text) ==
  \/ \E i \in 1..Len(text) :
       /\ LitAt(text, i, <<"=","=">>)
       /\ LitAt(text, SkipWhiteSpace(text, i + 2), <<"n","u","l","l">>)
  \/ Contains(text, <<"i","s"," ","n","o","t"," ","N","o","n","e">>)
  \/ Contains(text, <<"i","s"," ","N","o","n","e">>)

\* /==\s*null|!=\s*null|is not None|is None/.test(text)          App.js:279
hasNullChecks(text) ==
  \/ \E i \in 1..Len(text) :
       /\ LitAt(text, i, <<"=","=">>) \/ LitAt(text, i, <<"!","=">>)
       /\ LitAt(text, SkipWhiteSpace(text, i + 2), <<"n","u","l","l">>)
  \/ Contains(text, <<"i","s"," ","n","o","t"," ","N","o","n","e">>)
  \/ Contains(text, <<"i","s"," ","N","o","n","e">>)

\* App.js:280-282
NullChecksIssue(text) ==
  IF hasNull(text) /\ ~hasNullChecks(text)
    THEN <<[type |-> "Null checks", detail |-> <<"Possible missing null checks">>]>>
    ELSE <<>>

\* /\b(for|while|if|switch)\b/.test(l)                           App.js:289
OpensBlock(l) ==
  \/ ContainsWord(l, <<"f","o","r">>)
  \/ ContainsWord(l, <<"w","h","i","l","e">>)
  \/ ContainsWord(l, <<"i","f">>)
  \/ ContainsWord(l, <<"s","w","i","t","c","h">>)

\* /\}/.test(l) || /\bend\b/.test(l)                             App.js:290
ClosesBlock(l) == Contains(l, <<"}">>) \/ ContainsWord(l, <<"e","n","d">>)

NestStep_noClamp(st, l) ==
  LET d1 == IF OpensBlock(l) THEN st.depth + 1 ELSE st.depth
      d2 == IF ClosesBlock(l) THEN d1 - 1 ELSE d1
  IN [depth |-> d2, maxDepth |-> IF d2 > st.maxDepth THEN d2 ELSE st.maxDepth]

NestStep_closeFirst(st, l) ==
  LET d1 == IF ClosesBlock(l) THEN MaxOf(0, st.depth - 1) ELSE st.depth
      d2 == IF OpensBlock(l) THEN d1 + 1 ELSE d1
  IN [depth |-> d2, maxDepth |-> IF d2 > st.maxDepth THEN d2 ELSE st.maxDepth]

\* one turn of linesArr.forEach                                  App.js:288-292
NestStep(st, l) ==
  LET d1 == IF OpensBlock(l) THEN st.depth + 1 ELSE st.depth
      d2 == IF ClosesBlock(l) THEN MaxOf(0, d1 - 1) ELSE d1
  IN [depth |-> d2, maxDepth |-> IF d2 > st.maxDepth THEN d2 ELSE st.maxDepth]

RECURSIVE NestScan(_, _)
\* depth and maxDepth after the first k lines                    App.js:286-292
NestScan(linesArr, k) ==
  IF k = 0 THEN [depth |-> 0, maxDepth |-> 0]
  ELSE NestStep(NestScan(linesArr, k - 1), linesArr[k])

MaxNestingDepth(text) ==
  LET linesArr == SplitLines(text) IN NestScan(linesArr, Len(linesArr)).maxDepth

\* App.js:293-295
DeepNestingIssue_perLevel(text) ==
  LET maxDepth == MaxNestingDepth(text) IN
    IF maxDepth >= 4
      THEN [k \in 1..maxDepth |->
              [type |-> "Deep nesting", detail |-> <<"Max nesting depth ~", maxDepth>>]]
      ELSE <<>>

DeepNestingIssue(text) ==
  LET maxDepth == MaxNestingDepth(text) IN
    IF maxDepth >= 4
      THEN <<[type |-> "Deep nesting", detail |-> <<"Max nesting depth ~", maxDepth>>]>>
      ELSE <<>>

LongFunctionBlocks_atLeast(text) ==
  LET words == << <<"f","u","n","c","t","i","o","n">>, <<"d","e","f">>,
                  <<"p","u","b","l","i","c">>, <<"p","r","i","v","a","t","e">> >>
      len == [i \in 1..Len(text) |-> WordAltLen(text, i, words)]
      frag == FragmentLengths(len, Len(text))
  IN Cardinality({k \in 1..Len(frag) : frag[k] >= 500})

\* text.split(/\bfunction\b|\bdef\b|\bpublic\b|\bprivate\b/).filter(s => s.length > 500)
LongFunctionBlocks(text) ==
  LET words == << <<"f","u","n","c","t","i","o","n">>, <<"d","e","f">>,
                  <<"p","u","b","l","i","c">>, <<"p","r","i","v","a","t","e">> >>
      len == [i \in 1..Len(text) |-> WordAltLen(text, i, words)]
      frag == FragmentLengths(len, Len(text))
  IN Cardinality({k \in 1..Len(frag) : frag[k] > 500})

\* App.js:298-301
LongFunctionsIssue(text) ==
  LET n == LongFunctionBlocks(text) IN
    IF n > 0
      THEN <<[type |-> "Long functions", detail |-> <<n, " very long function(s) detected">>]>>
      ELSE <<>>

analyzeIssues_reordered(text) ==
  IF text = <<>> THEN <<>>
  ELSE TodoIssue(text) \o MagicNumbersIssue(text) \o MissingCommentsIssue(text)
       \o DeprecatedIssue(text) \o NullChecksIssue(text) \o DeepNestingIssue(text)
       \o LongFunctionsIssue(text)

\* App.js:251-304
analyzeIssues(text) ==
  IF text = <<>> THEN <<>>
  ELSE TodoIssue(text) \o MissingCommentsIssue(text) \o MagicNumbersIssue(text)
       \o DeprecatedIssue(text) \o NullChecksIssue(text) \o DeepNestingIssue(text)
       \o LongFunctionsIssue(text)

(***************************************************************************)
(* Structural statistics of the analysis effect, App.js:209-215            *)
(***************************************************************************)
\* code.match(/function|def |public |private |protected |class /g)  App.js:210-211
FunctionCount(text) ==
  LET alts == << <<"f","u","n","c","t","i","o","n">>, <<"d","e","f"," ">>,
                 <<"p","u","b","l","i","c"," ">>, <<"p","r","i","v","a","t","e"," ">>,
                 <<"p","r","o","t","e","c","t","e","d"," ">>, <<"c","l","a","s","s"," ">> >>
      len == [i \in 1..Len(text) |-> AltLen(text, i, alts)]
  IN MatchCount(len, Len(text))

Complexity_inclusive(lines, functions) ==
  IF lines >= 100 \/ functions >= 10 THEN "High"
  ELSE IF lines >= 50 \/ functions >= 5 THEN "Medium"
  ELSE "Low"

\* App.js:213-215: 'Low', overwritten by 'Medium', overwritten by 'High'
Complexity(lines, functions) ==
  LET c0 == "Low"
      c1 == IF lines > 50 \/ functions > 5 THEN "Medium" ELSE c0
      c2 == IF lines > 100 \/ functions > 10 THEN "High" ELSE c1
  IN c2

(***************************************************************************)
(* Quality score, App.js:309-347                                           *)
(***************************************************************************)
\* Math.round(p / q) for integers p >= 0, q > 0: halves round up
RoundDiv(p, q) == (2 * p + q) \div (2 * q)

\* foundIssues.filter(i => i.type === kind).length
CountKind(foundIssues, kind) ==
  Cardinality({k \in 1..Len(foundIssues) : foundIssues[k].type = kind})

complexityScore_noFloor(complexityPenalty, nestingPenalty, longFuncPenalty) ==
  100 - complexityPenalty - nestingPenalty - longFuncPenalty

\* App.js:321
complexityScoreOf(complexityPenalty, nestingPenalty, longFuncPenalty) ==
  MaxOf(10, 100 - complexityPenalty - nestingPenalty - longFuncPenalty)

complexityPenalty_swapped(complexity) ==
  IF complexity = "High" THEN 15 ELSE IF complexity = "Medium" THEN 30 ELSE 5

\* App.js:317
complexityPenalty(complexity) ==
  IF complexity = "High" THEN 30 ELSE IF complexity = "Medium" THEN 15 ELSE 5

\* App.js:318
nestingPenalty(foundIssues) == MinOf(40, CountKind(foundIssues, "Deep nesting") * 10)

\* App.js:319
longFuncPenalty(foundIssues) == MinOf(30, CountKind(foundIssues, "Long functions") * 10)

\* the penalty a reader of the detail might compute: eight per magic number
magicPenalty_perLiteral(foundIssues) ==
  LET hit == {k \in 1..Len(foundIssues) : foundIssues[k].type = "Magic Numbers"} IN
    IF hit = {} THEN 0
    ELSE MinOf(40, foundIssues[Min(hit)].detail[1] * 8)

\* App.js:324
magicPenalty(foundIssues) == MinOf(40, CountKind(foundIssues, "Magic Numbers") * 8)

\* App.js:309-347
calculateQualityScore(codeText, foundIssues, docText, complexity) ==
  LET lines == IF codeText # <<>> THEN LineCount(codeText) ELSE 0
      commentCount == CommentCount(codeText)
      \* Math.round((commentCount / Math.max(1, lines)) * 100 * 1.2)
      commentScore == MinOf(100, RoundDiv(commentCount * 120, MaxOf(1, lines)))
      complexityScore ==
        complexityScoreOf(complexityPenalty(complexity), nestingPenalty(foundIssues),
                          longFuncPenalty(foundIssues))
      missingComments ==
        IF CountKind(foundIssues, "Missing Comments") > 0 THEN 25 ELSE 0
      clarityScore == MaxOf(10, 100 - magicPenalty(foundIssues) - missingComments)
      maintainability == RoundDiv(commentScore + complexityScore + clarityScore, 3)
      docPresence == IF TrimNonEmpty(docText) THEN 30 ELSE 0
      docCompleteness == MinOf(100, commentCount * 5 + docPresence)
      issueCount == Len(foundIssues)
      risk == MinOf(100, issueCount * 15 + complexityPenalty(complexity))
  IN [maintainability |-> maintainability,
      commentScore |-> commentScore,
      complexityScore |-> complexityScore,
      clarityScore |-> clarityScore,
      docCompleteness |-> docCompleteness,
      risk |-> risk]

(***************************************************************************)
(* Syntax highlight preview, App.js:354-394.  The markup is a sequence of  *)
(* [c, markup]: c is the character and markup tells whether the            *)
(* highlighter wrote it (TRUE) or it stems from the input text (FALSE).    *)
(* The string the function returns is the sequence of the c.               *)
(***************************************************************************)
Tagged(s, m) == [i \in 1..Len(s) |-> [c |-> s[i], markup |-> m]]
Markup(s) == Tagged(s, TRUE)
Chars(h) == [i \in 1..Len(h) |-> h[i].c]

\* s.replace(/ch/g, lit) for a single character ch
ReplaceChar(h, ch, lit) ==
  Flatten([i \in 1..Len(h) |-> IF h[i].c = ch THEN Tagged(lit, h[i].markup) ELSE <<h[i]>>])

esc_ampLast(h) ==
  ReplaceChar(ReplaceChar(ReplaceChar(h, "<", <<"&","l","t",";">>),
                          ">", <<"&","g","t",";">>),
              "&", <<"&","a","m","p",";">>)

esc_noLt(h) ==
  ReplaceChar(ReplaceChar(h, "&", <<"&","a","m","p",";">>), ">", <<"&","g","t",";">>)

\* App.js:358
esc(h) ==
  ReplaceChar(ReplaceChar(ReplaceChar(h, "&", <<"&","a","m","p",";">>),
                          "<", <<"&","l","t",";">>),
              ">", <<"&","g","t",";">>)

PlaceholderHtml ==
  <<"<","p","r","e"," ","s","t","y","l","e","=","\"","m","a","r","g","i","n",":","0",
    ";","p","a","d","d","i","n","g",":","1","2","p","x",";","f","o","n","t","-","f","a",
    "m","i","l","y",":","u","i","-","m","o","n","o","s","p","a","c","e",","," ","S","F",
    "M","o","n","o","-","R","e","g","u","l","a","r",","," ","M","e","n","l","o",","," ",
    "M","o","n","a","c","o",","," ","m","o","n","o","s","p","a","c","e",";","\"",">",
    "/","/"," ","P","r","e","v","i","e","w"," ","w","i","l","l"," ","a","p","p","e","a",
    "r"," ","h","e","r","e","<","/","p","r","e",">">>
PreOpen ==
  <<"<","p","r","e"," ","s","t","y","l","e","=","\"","m","a","r","g","i","n",":","0",
    ";","p","a","d","d","i","n","g",":","1","2","p","x",";","f","o","n","t","-","f","a",
    "m","i","l","y",":","u","i","-","m","o","n","o","s","p","a","c","e",","," ","S","F",
    "M","o","n","o","-","R","e","g","u","l","a","r",","," ","M","e","n","l","o",","," ",
    "M","o","n","a","c","o",","," ","m","o","n","o","s","p","a","c","e",";","\"",">",
    "<","c","o","d","e",">">>
PreClose == <<"<","/","c","o","d","e",">","<","/","p","r","e",">">>
CommentSpan_noClass == <<"<","s","p","a","n",">">>

CommentSpan ==
  <<"<","s","p","a","n"," ","c","l","a","s","s","=","\"","t","e","x","t","-","s","l",
    "a","t","e","-","4","0","0","\"",">">>
StringSpan ==
  <<"<","s","p","a","n"," ","c","l","a","s","s","=","\"","t","e","x","t","-","g","r",
    "e","e","n","-","3","0","0","\"",">">>
NumberSpan ==
  <<"<","s","p","a","n"," ","c","l","a","s","s","=","\"","t","e","x","t","-","y","e",
    "l","l","o","w","-","3","0","0","\"",">">>
KeywordSpan ==
  <<"<","s","p","a","n"," ","c","l","a","s","s","=","\"","t","e","x","t","-","p","u",
    "r","p","l","e","-","3","0","0"," ","f","o","n","t","-","s","e","m","i","b","o","l",
    "d","\"",">">>
SpanClose == <<"<","/","s","p","a","n",">">>

\* the line terminators: . matches none of them, $ (flag m) matches before one
LineTerminators == {"\n", "\r"}

\* the position of the last character of the line of position i
LineEnd(s, i) ==
  LET stop == {e \in i..Len(s) : s[e] \in LineTerminators} IN
    IF stop = {} THEN Len(s) ELSE Min(stop) - 1

\* the length of the match of /(\/\*[\s\S]*?\*\/|\/\/.*$|#.*$)/m at i, or 0
CommentLen(s, i) ==
  IF LitAt(s, i, <<"/","*">>)
    THEN LET ends == {e \in (i + 2)..Len(s) : LitAt(s, e, <<"*","/">>)} IN
           IF ends = {} THEN 0 ELSE Min(ends) + 2 - i
  ELSE IF LitAt(s, i, <<"/","/">>) \/ s[i] = "#"
    THEN LineEnd(s, i) - i + 1
  ELSE 0

\* stands for the grave accent (U+0060), which a string of this language
\* cannot hold
GraveAccent == "grave"

\* the length of the match of /("[^"]*"|'[^']*'|G[^G]*G)/ at i, or 0, G being
\* the grave accent
StringLen(s, i) ==
  IF s[i] \in {"\"", "'", GraveAccent}
    THEN LET ends == {e \in (i + 1)..Len(s) : s[e] = s[i]} IN
           IF ends = {} THEN 0 ELSE Min(ends) - i + 1
    ELSE 0

\* the position after the digits that start at i
DigitsEnd(s, i) == Min({e \in i..(Len(s) + 1) : At(s, e) \notin Digits})

\* the length of the match of /\b([0-9]+(?:\.[0-9]+)?)\b/ at i, or 0: the
\* digits and the fraction are taken whole, the fraction is given up when no
\* word boundary follows it
NumberLen(s, i) ==
  IF s[i] \in Digits /\ ~IsWordChar(At(s, i - 1))
    THEN LET d == DigitsEnd(s, i)
             f == IF At(s, d) = "." /\ At(s, d + 1) \in Digits
                    THEN DigitsEnd(s, d + 1) ELSE 0
         IN IF f > 0 /\ ~IsWordChar(At(s, f)) THEN f - i
            ELSE IF ~IsWordChar(At(s, d)) THEN d - i
            ELSE 0
    ELSE 0

\* the length of the match of new RegExp('\\b' + safe + '\\b') at i, or 0
KeywordLen(s, i, k) == IF WordAt(s, i, k) THEN Len(k) ELSE 0

\* the length of the match of the step at i
MatchLen(step, s, i) ==
  CASE step.kind = "comment" -> CommentLen(s, i)
    [] step.kind = "string" -> StringLen(s, i)
    [] step.kind = "number" -> NumberLen(s, i)
    [] step.kind = "keyword" -> KeywordLen(s, i, step.keyword)

\* what the step puts in the place of the match m: the comment and the string
\* step escape the match again; the keyword step writes the keyword, which is
\* the match character by character
Replacement(step, m) ==
  CASE step.kind = "comment" -> Markup(CommentSpan) \o esc(m) \o Markup(SpanClose)
    [] step.kind = "string" -> Markup(StringSpan) \o esc(m) \o Markup(SpanClose)
    [] step.kind = "number" -> Markup(NumberSpan) \o m \o Markup(SpanClose)
    [] step.kind = "keyword" -> Markup(KeywordSpan) \o m \o Markup(SpanClose)

RECURSIVE ReplaceFrom(_, _, _)
\* html.replace(re, ...) from position i on: the matches are taken leftmost
\* first, do not overlap, and what replaces one is not scanned again
ReplaceFrom(step, h, i) ==
  LET s == Chars(h)
      hits == {j \in i..Len(h) : MatchLen(step, s, j) > 0}
  IN IF hits = {} THEN SubSeq(h, i, Len(h))
     ELSE LET j == Min(hits)
              n == MatchLen(step, s, j)
          IN SubSeq(h, i, j - 1) \o Replacement(step, SubSeq(h, j, j + n - 1))
               \o ReplaceFrom(step, h, j + n)

ReplaceAll(step, h) == ReplaceFrom(step, h, 1)

\* App.js:373-381
keywords ==
  [ common |->
      << <<"r","e","t","u","r","n">>, <<"c","o","n","s","t">>, <<"l","e","t">>,
         <<"v","a","r">>, <<"i","f">>, <<"e","l","s","e">>, <<"f","o","r">>,
         <<"w","h","i","l","e">>, <<"s","w","i","t","c","h">>, <<"c","a","s","e">>,
         <<"b","r","e","a","k">>, <<"c","o","n","t","i","n","u","e">>,
         <<"c","l","a","s","s">>, <<"n","e","w">>, <<"t","h","r","o","w">>, <<"t","r","y">>,
         <<"c","a","t","c","h">>, <<"f","i","n","a","l","l","y">>,
         <<"i","m","p","o","r","t">>, <<"f","r","o","m">>, <<"e","x","p","o","r","t">> >>,
    java |-> << <<"p","u","b","l","i","c">>, <<"p","r","i","v","a","t","e">>,
     <<"p","r","o","t","e","c","t","e","d">>, <<"v","o","i","d">>,
     <<"t","h","r","o","w","s">>, <<"i","m","p","l","e","m","e","n","t","s">>,
     <<"e","x","t","e","n","d","s">> >>,
    python |->
      << <<"d","e","f">>, <<"N","o","n","e">>, <<"T","r","u","e">>, <<"F","a","l","s","e">>,
     <<"s","e","l","f">>, <<"e","l","i","f">>, <<"l","a","m","b","d","a">>,
     <<"w","i","t","h">>, <<"a","s">> >>,
    javascript |-> << <<"a","s","y","n","c">>, <<"a","w","a","i","t">>, <<"=",">">>,
     <<"f","u","n","c","t","i","o","n">> >>,
    cpp |->
      << <<"#","i","n","c","l","u","d","e">>, <<"s","t","d",":",":">>,
     <<"t","e","m","p","l","a","t","e">>, <<"t","y","p","e","n","a","m","e">>,
     <<"c","o","n","s","t","e","x","p","r">> >>,
    php |-> << <<"<","?","p","h","p">>, <<"e","c","h","o">>, <<"$","t","h","i","s">> >>,
    csharp |->
      << <<"u","s","i","n","g">>, <<"n","a","m","e","s","p","a","c","e">>,
     <<"C","o","n","s","o","l","e">>, <<"s","t","a","t","i","c">> >> ]

\* new Set([...keywords.common, ...(keywords[lang] || [])]), in insertion
\* order; no keyword is in two lists                              App.js:383
allKeywords(lang) ==
  keywords.common \o
    (IF lang \in (DOMAIN keywords \ {"common"}) THEN keywords[lang] ELSE <<>>)

RECURSIVE KeywordPasses(_, _, _)
\* allKeywords.forEach from the n-th keyword on; nothing is left to replace
\* in an empty html                                              App.js:385-389
KeywordPasses(h, ks, n) ==
  IF n > Len(ks) \/ h = <<>> THEN h
  ELSE KeywordPasses(ReplaceAll([kind |-> "keyword", keyword |-> ks[n]], h), ks, n + 1)

\* App.js:354-394
highlightCode(text, lang) ==
  IF text = <<>> THEN Markup(PlaceholderHtml)
  ELSE LET escaped == esc(Tagged(text, FALSE))
           comments == ReplaceAll([kind |-> "comment"], escaped)
           strings == ReplaceAll([kind |-> "string"], comments)
           numbers == ReplaceAll([kind |-> "number"], strings)
           html == KeywordPasses(numbers, allKeywords(lang), 1)
       IN Markup(PreOpen) \o html \o Markup(PreClose)

(***************************************************************************)
(* The component: state after the first render, and its handlers.          *)
(***************************************************************************)
null == [null |-> TRUE]
NoCall == [fn |-> "none"]
DefaultStats == [lines |-> 0, functions |-> 0, complexity |-> "Low"]

\* the texts the user types, pastes, drops and shares
AppTexts ==
  { <<>>, <<" ">>, <<"\n", " ">>, <<"x">>,
    <<"d","e","f"," ","f">>, <<"l","e","t"," ","n","=","4","2",";">> }
\* the texts of the files the user drops or uploads
FileTexts == { <<"x">>, <<"d","e","f"," ","f">> }
\* the texts typed into the documentation box
DocTexts == { <<>>, <<"d","o","c">> }
\* the files read at most at one time
MaxPendingFiles == 1
\* what localStorage holds under lcdg_history_v2: what an earlier session wrote
PersistedHistories ==
  { <<>>,
    <<[language |-> "python", code |-> <<"d","e","f"," ","f">>]>>,
    <<[language |-> "php", code |-> <<"x">>],
      [language |-> "python", code |-> <<"d","e","f"," ","f">>]>> }
\* what window.location.hash decodes to: valid is FALSE when there is no hash or
\* atob / JSON.parse throws; a field that is absent is the empty string
SharePayloads ==
  {[valid |-> FALSE, code |-> <<>>, language |-> ""]} \cup
  {[valid |-> TRUE, code |-> c, language |-> l] :
     c \in {<<>>, <<"x">>, <<"d","e","f"," ","f">>}, l \in {"", "cpp", "ruby"}}

AppInit ==
  /\ code = <<>>
  /\ language = "java"
  /\ documentation = <<>>
  /\ codeStats = DefaultStats
  /\ showStats = FALSE
  /\ history = <<>>
  /\ qualityReport = null
  /\ issues = <<>>
  /\ mounted = FALSE
  /\ effectPending = FALSE
  /\ pendingFile = {}
  /\ analyzed = [invoked |-> FALSE, text |-> <<>>]
  /\ isGenerating = FALSE
  /\ timers = <<>>

Init == AppInit /\ call = NoCall

DepsChanged_codeOnly(oldCode, oldDoc, newCode, newDoc) == newCode # oldCode

\* the dependency list [code, documentation] of the analysis effect, App.js:231:
\* the effect runs again after a render in which one of the two changed
DepsChanged(oldCode, oldDoc, newCode, newDoc) ==
  newCode # oldCode \/ newDoc # oldDoc

\* The effects of the first render, App.js:170-193 and 207-231: the history is
\* read from localStorage and the share payload from the URL hash; the analysis
\* effect of that render sees code = '' and stores the defaults the state
\* already holds.  A changed code makes the analysis effect run again.
MountWith(histories, payloads) ==
  /\ ~mounted
  /\ mounted' = TRUE
  /\ \E h \in histories : history' = h
  /\ \E json \in payloads :
       IF json.valid /\ json.code # <<>>
         THEN /\ code' = json.code
              /\ language' = IF json.language # "" THEN json.language ELSE language
         ELSE UNCHANGED <<code, language>>
  /\ effectPending' = DepsChanged(code, documentation, code', documentation)
  /\ UNCHANGED <<documentation, codeStats, showStats, qualityReport, issues,
                 pendingFile, analyzed, isGenerating, timers, call>>

Mount == MountWith(PersistedHistories, SharePayloads)

\* A handler runs on a rendered component whose effects have been flushed:
\* React runs the effects of a render before the next event's update.
Idle == mounted /\ ~effectPending

\* onChange of the textarea, App.js:938
SetCodeIn(texts) ==
  /\ Idle
  /\ \E t \in texts : code' = t
  /\ effectPending' = DepsChanged(code, documentation, code', documentation)
  /\ UNCHANGED <<language, documentation, codeStats, showStats, history,
                 qualityReport, issues, mounted, pendingFile, analyzed,
                 isGenerating, timers, call>>

SetCode == SetCodeIn(AppTexts)

\* onChange of the documentation box, App.js:1118
SetDocumentation ==
  /\ Idle
  /\ \E d \in DocTexts : documentation' = d
  /\ effectPending' = DepsChanged(code, documentation, code, documentation')
  /\ UNCHANGED <<code, language, codeStats, showStats, history,
                 qualityReport, issues, mounted, pendingFile, analyzed,
                 isGenerating, timers, call>>

\* onChange of the language select, App.js:835-845
SelectLanguageIn(tags) ==
  /\ Idle
  /\ \E l \in tags : language' = l
  /\ UNCHANGED <<code, documentation, codeStats, showStats, history,
                 qualityReport, issues, mounted, effectPending, pendingFile,
                 analyzed, isGenerating, timers, call>>

SelectLanguage == SelectLanguageIn(LanguageTags)

\* App.js:644-651
handlePasteIn(texts) ==
  /\ Idle
  /\ \E pastedText \in texts :
       LET detectedLang == detectLanguage(pastedText, language) IN
         /\ language' = IF detectedLang # language THEN detectedLang ELSE language
         /\ code' = pastedText
  /\ effectPending' = DepsChanged(code, documentation, code', documentation)
  /\ UNCHANGED <<documentation, codeStats, showStats, history,
                 qualityReport, issues, mounted, pendingFile, analyzed,
                 isGenerating, timers, call>>

handlePaste == handlePasteIn(AppTexts)

\* App.js:656-665, up to reader.readAsText(file): reader.onload keeps the
\* detectLanguage of this render, and with it this render's language
handleFileIn(texts) ==
  /\ Idle
  /\ Cardinality(pendingFile) < MaxPendingFiles
  /\ \E t \in texts : pendingFile' = pendingFile \cup {[text |-> t, language |-> language]}
  /\ UNCHANGED <<code, language, documentation, codeStats, showStats, history,
                 qualityReport, issues, mounted, effectPending, analyzed,
                 isGenerating, timers, call>>

handleFile == handleFileIn(FileTexts)

\* reader.onload, App.js:658-663
FileLoaded ==
  /\ Idle
  /\ \E f \in pendingFile :
       /\ code' = f.text
       /\ language' = detectLanguage(f.text, f.language)
       /\ pendingFile' = pendingFile \ {f}
  /\ effectPending' = DepsChanged(code, documentation, code', documentation)
  /\ UNCHANGED <<documentation, codeStats, showStats, history,
                 qualityReport, issues, mounted, analyzed, isGenerating, timers, call>>

\* App.js:689-695 (docStyle and audience are not part of the model)
loadHistoryItem ==
  /\ Idle
  /\ \E k \in 1..Len(history) :
       LET item == history[k] IN
         /\ code' = item.code
         /\ language' = IF item.language # "" THEN item.language ELSE "java"
  /\ effectPending' = DepsChanged(code, documentation, code', documentation)
  /\ UNCHANGED <<documentation, codeStats, showStats, history,
                 qualityReport, issues, mounted, pendingFile, analyzed,
                 isGenerating, timers, call>>

\* App.js:697-700
clearHistory ==
  /\ Idle
  /\ history' = <<>>
  /\ UNCHANGED <<code, language, documentation, codeStats, showStats,
                 qualityReport, issues, mounted, effectPending, pendingFile,
                 analyzed, isGenerating, timers, call>>

AnalysisEffect_keepsIssues ==
  /\ mounted
  /\ effectPending
  /\ effectPending' = FALSE
  /\ IF TrimNonEmpty(code)
       THEN LET lines == LineCount(code)
                functions == FunctionCount(code)
                complexity == Complexity(lines, functions)
                found == analyzeIssues(code)
            IN /\ codeStats' = [lines |-> lines, functions |-> functions,
                                complexity |-> complexity]
               /\ showStats' = TRUE
               /\ issues' = found
               /\ qualityReport' = calculateQualityScore(code, found, documentation, complexity)
               /\ analyzed' = [invoked |-> TRUE, text |-> code]
       ELSE /\ showStats' = FALSE
            /\ qualityReport' = null
            /\ codeStats' = DefaultStats
            /\ UNCHANGED <<issues, analyzed>>
  /\ UNCHANGED <<code, language, documentation, history, mounted, pendingFile,
                 isGenerating, timers, call>>

\* The real-time analysis effect, App.js:207-231, run after a render in which
\* code or documentation changed.  analyzed records the argument of its call of
\* analyzeIssues and calculateQualityScore.
AnalysisEffect ==
  /\ mounted
  /\ effectPending
  /\ effectPending' = FALSE
  /\ IF TrimNonEmpty(code)
       THEN LET lines == LineCount(code)
                functions == FunctionCount(code)
                complexity == Complexity(lines, functions)
                found == analyzeIssues(code)
            IN /\ codeStats' = [lines |-> lines, functions |-> functions,
                                complexity |-> complexity]
               /\ showStats' = TRUE
               /\ issues' = found
               /\ qualityReport' = calculateQualityScore(code, found, documentation, complexity)
               /\ analyzed' = [invoked |-> TRUE, text |-> code]
       ELSE /\ showStats' = FALSE
            /\ issues' = <<>>
            /\ qualityReport' = null
            /\ codeStats' = DefaultStats
            /\ UNCHANGED analyzed
  /\ UNCHANGED <<code, language, documentation, history, mounted, pendingFile,
                 isGenerating, timers, call>>

Next ==
  \/ Mount
  \/ SetCode
  \/ SetDocumentation
  \/ SelectLanguage
  \/ handlePaste
  \/ handleFile
  \/ FileLoaded
  \/ loadHistoryItem
  \/ clearHistory
  \/ AnalysisEffect

Spec == Init /\ [][Next]_vars

(***************************************************************************)
(* Prompt generation and the example loader, with their timers.            *)
(***************************************************************************)
\* The example code map, App.js:53-167.  Each example is cut to its first
\* line, which keeps its analysis small; the keys are those of the source.
exampleCode ==
  [ java |->
      <<"p","u","b","l","i","c"," ","c","l","a","s","s"," ","D","a","t","a","P","r","o","c","e","s","s","o","r"," ","{">>,
    python |->
      <<"d","e","f"," ","p","r","o","c","e","s","s","_","r","e","c","o","r","d","s","(","r","e","c","o","r","d","s",","," ","t","h","r","e","s","h","o","l","d","=","1","0","0",")",":">>,
    javascript |->
      <<"f","u","n","c","t","i","o","n"," ","p","r","o","c","e","s","s","D","a","t","a","(","i","t","e","m","s",")"," ","{">>,
    cpp |->
      <<"#","i","n","c","l","u","d","e"," ","<","i","o","s","t","r","e","a","m",">">>,
    php |->
      <<"<","?","p","h","p">>,
    csharp |->
      <<"u","s","i","n","g"," ","S","y","s","t","e","m",";">> ]

\* exampleCode[language] || exampleCode.java                     App.js:722
exampleCodeText(lang) ==
  IF lang \in DOMAIN exampleCode THEN exampleCode[lang] ELSE exampleCode.java

\* the callbacks of setTimeout that are pending at most at one time
MaxTimers == 2
\* prompt generation is started while the history is shorter than this
MaxSessionHistory == 1

ExampleTimeout == [kind |-> "example", code |-> <<>>, language |-> ""]
\* the closure of the callback of generatePrompt keeps the code and the
\* language of the render in which the button was clicked
GenerateTimeout(c, l) == [kind |-> "generate", code |-> c, language |-> l]

\* Timer i can be the next to run.  Two timeouts of the same delay run in the
\* order they were set; a timeout of 400 ms set before one of 700 ms runs
\* first; one of 400 ms set after one of 700 ms runs before or after it.
CanFire(i) ==
  /\ \A j \in 1..(i - 1) : timers[j].kind # timers[i].kind
  /\ timers[i].kind = "generate" =>
       \A j \in 1..(i - 1) : timers[j].kind # "example"

WithoutTimer(i) == SubSeq(timers, 1, i - 1) \o SubSeq(timers, i + 1, Len(timers))

\* App.js:721-726, up to setTimeout
loadExample ==
  /\ Idle
  /\ Len(timers) < MaxTimers
  /\ code' = exampleCodeText(language)
  /\ isGenerating' = TRUE
  /\ timers' = Append(timers, ExampleTimeout)
  /\ effectPending' = DepsChanged(code, documentation, code', documentation)
  /\ UNCHANGED <<language, documentation, codeStats, showStats, history,
                 qualityReport, issues, mounted, pendingFile, analyzed, call>>

\* the callback of App.js:725
ExampleTimer ==
  /\ Idle
  /\ \E i \in 1..Len(timers) :
       /\ timers[i].kind = "example"
       /\ CanFire(i)
       /\ timers' = WithoutTimer(i)
  /\ isGenerating' = FALSE
  /\ UNCHANGED <<code, language, documentation, codeStats, showStats, history,
                 qualityReport, issues, mounted, effectPending, pendingFile,
                 analyzed, call>>

\* App.js:399-414, up to setTimeout.  The button that calls it is disabled
\* while the code is blank or isGenerating holds, App.js:974.
generatePromptUpTo(most) ==
  /\ Idle
  /\ TrimNonEmpty(code)
  /\ ~isGenerating
  /\ Len(timers) < MaxTimers
  /\ Len(history) < most
  /\ isGenerating' = TRUE
  /\ timers' = Append(timers, GenerateTimeout(code, language))
  /\ UNCHANGED <<code, language, documentation, codeStats, showStats, history,
                 qualityReport, issues, mounted, effectPending, pendingFile,
                 analyzed, call>>

generatePrompt == generatePromptUpTo(MaxSessionHistory)

GenerationTimer_noSlice ==
  /\ Idle
  /\ \E i \in 1..Len(timers) :
       /\ timers[i].kind = "generate"
       /\ CanFire(i)
       /\ timers' = WithoutTimer(i)
       /\ LET historyItem == [language |-> timers[i].language, code |-> timers[i].code]
          IN history' = <<historyItem>> \o history
  /\ isGenerating' = FALSE
  /\ documentation' = <<>>
  /\ effectPending' = DepsChanged(code, documentation, code, documentation')
  /\ UNCHANGED <<code, language, codeStats, showStats, qualityReport, issues,
                 mounted, pendingFile, analyzed, call>>

\* the callback of App.js:414-460: the prompt is stored, isGenerating and the
\* documentation are reset, and the entry goes to the front of the history,
\* of which the first 100 are kept
GenerationTimer ==
  /\ Idle
  /\ \E i \in 1..Len(timers) :
       /\ timers[i].kind = "generate"
       /\ CanFire(i)
       /\ timers' = WithoutTimer(i)
       /\ LET historyItem == [language |-> timers[i].language, code |-> timers[i].code]
              all == <<historyItem>> \o history
          IN history' = SubSeq(all, 1, MinOf(100, Len(all)))
  /\ isGenerating' = FALSE
  /\ documentation' = <<>>
  /\ effectPending' = DepsChanged(code, documentation, code, documentation')
  /\ UNCHANGED <<code, language, codeStats, showStats, qualityReport, issues,
                 mounted, pendingFile, analyzed, call>>

\* a session on few texts: every handler that changes the code or the
\* documentation, with prompt generation and the example loader
SessionTexts == { <<>>, <<" ">>, <<"x">> }
SessionPayloads ==
  { [valid |-> FALSE, code |-> <<>>, language |-> ""],
    [valid |-> TRUE, code |-> <<"x">>, language |-> ""] }

NextSession ==
  \/ MountWith({<<>>}, SessionPayloads)
  \/ SetCodeIn(SessionTexts)
  \/ SetDocumentation
  \/ handlePasteIn(SessionTexts)
  \/ handleFileIn({<<"x">>})
  \/ FileLoaded
  \/ loadHistoryItem
  \/ clearHistory
  \/ loadExample
  \/ ExampleTimer
  \/ generatePrompt
  \/ GenerationTimer
  \/ AnalysisEffect

SpecSession == Init /\ [][NextSession]_vars

(***************************************************************************)
(* The history over page loads: call holds what localStorage keeps under   *)
(* lcdg_history_v2, which only this component writes.  App.js:170-176,     *)
(* 195-202, 449-459, 697-700                                               *)
(***************************************************************************)
\* prompt generation is started while the history is shorter than this
MaxHistorySeen == 101

InitHistory ==
  /\ AppInit
  /\ call = [fn |-> "localStorage", stored |-> <<>>]

\* the history changed and the effect of App.js:196-202 has not run yet
PersistDue == mounted /\ call.stored # history

\* localStorage.setItem('lcdg_history_v2', JSON.stringify(history))
PersistEffect ==
  /\ PersistDue
  /\ call' = [call EXCEPT !.stored = history]
  /\ UNCHANGED appVars

\* the page is loaded anew: the state is the initial one, timeouts are gone,
\* localStorage stays
Reload ==
  /\ mounted
  /\ ~PersistDue
  /\ code' = <<>>
  /\ language' = "java"
  /\ documentation' = <<>>
  /\ codeStats' = DefaultStats
  /\ showStats' = FALSE
  /\ history' = <<>>
  /\ qualityReport' = null
  /\ issues' = <<>>
  /\ mounted' = FALSE
  /\ effectPending' = FALSE
  /\ pendingFile' = {}
  /\ analyzed' = [invoked |-> FALSE, text |-> <<>>]
  /\ isGenerating' = FALSE
  /\ timers' = <<>>
  /\ UNCHANGED call

NextHistory ==
  \/ MountWith({call.stored}, {[valid |-> FALSE, code |-> <<>>, language |-> ""]})
  \/ SetCodeIn({<<"x">>})
  \/ generatePromptUpTo(MaxHistorySeen)
  \/ GenerationTimer
  \/ clearHistory
  \/ AnalysisEffect
  \/ PersistEffect
  \/ Reload

SpecHistory == InitHistory /\ [][NextHistory]_vars

(***************************************************************************)
(* The pure functions applied to inputs drawn from bounded sets: call      *)
(* holds the arguments, and after the application the result.              *)
(***************************************************************************)
MaxDetectPieces == 3
DetectPieces ==
  { <<" ">>, <<"x">>, <<"d","e","f"," ">>, <<"I","m","p","o","r","t"," ">>,
    <<"f","u","n","c","t","i","o","n","(">>, <<"l","e","t"," ">>,
    <<"p","r","i","v","a","t","e"," ">>, <<"u","s","i","n","g"," ">>,
    <<"s","t","d",":",":">>, <<"e","c","h","o"," ">> }
DetectTexts == TextsOver(DetectPieces, MaxDetectPieces)
\* current languages: the initial one, one that a rule also returns, one that
\* only the last rule returns, and one that is none of the six tags (a share
\* payload can set it)
DetectLanguages == {"java", "javascript", "php", "ruby"}

InitDetect ==
  /\ AppInit!1 /\ AppInit!3 /\ AppInit!4 /\ AppInit!5 /\ AppInit!6 /\ AppInit!7
  /\ AppInit!8 /\ AppInit!9 /\ AppInit!10 /\ AppInit!11 /\ AppInit!12
  /\ AppInit!13 /\ AppInit!14
  /\ language \in DetectLanguages
  /\ \E t \in DetectTexts :
       call = [fn |-> "detectLanguage", codeText |-> t, done |-> FALSE, result |-> ""]

CallDetectLanguage ==
  /\ call.fn = "detectLanguage"
  /\ ~call.done
  /\ call' = [call EXCEPT !.done = TRUE,
                          !.result = detectLanguage(call.codeText, language)]
  /\ UNCHANGED appVars

SpecDetect == InitDetect /\ [][CallDetectLanguage]_vars

MaxLineCount == 102
MaxFunctionCount == 12

InitStats ==
  /\ AppInit
  /\ \E l \in 0..MaxLineCount, f \in 0..MaxFunctionCount :
       call = [fn |-> "Complexity", lines |-> l, functions |-> f,
               done |-> FALSE, result |-> ""]

CallComplexity ==
  /\ call.fn = "Complexity"
  /\ ~call.done
  /\ call' = [call EXCEPT !.done = TRUE,
                          !.result = Complexity(call.lines, call.functions)]
  /\ UNCHANGED appVars

SpecStats == InitStats /\ [][CallComplexity]_vars

MaxIssuePieces == 3
IssuePieces ==
  { <<" ">>, <<"x">>, <<"1">>, <<"5">>, <<"1","5">>, <<"4","2">>,
    <<"n","u","l","l">>, <<"!","=">>, <<"=","=">>, <<" ","i","s"," ","N","o","n","e">>,
    <<"T","O","D","O">>, <<"/","/">> }

RECURSIVE JoinLines(_)
\* lines.join('\n')
JoinLines(ls) ==
  IF Len(ls) = 0 THEN <<>>
  ELSE IF Len(ls) = 1 THEN ls[1]
  ELSE ls[1] \o <<"\n">> \o JoinLines(Tail(ls))

MaxNestLines == 5
NestLineKinds ==
  { <<"i","f">>, <<"w","h","i","l","e"," ","}">>, <<"e","n","d">>,
    <<"e","n","d","i","f">>, <<"f","o","r"," ","x">> }
NestTexts ==
  {JoinLines(p) : p \in UNION {[1..k -> NestLineKinds] : k \in 1..MaxNestLines}}

MaxLongPieces == 3
\* a run of as many letters as a fragment may have without being a long function
LongRun == [i \in 1..500 |-> "a"]
LongPieces ==
  { LongRun, <<"a">>, <<" ","d","e","f"," ">>,
    <<"T","O","D","O"," ","4","2"," ","n","u","l","l"," ","g","e","t","s","(","\n",
      "i","f","\n","i","f","\n","i","f","\n","i","f","\n">> }

IssueTexts ==
  TextsOver(IssuePieces, MaxIssuePieces) \cup NestTexts
    \cup TextsOver(LongPieces, MaxLongPieces)

InitIssues ==
  /\ AppInit
  /\ \E t \in IssueTexts :
       call = [fn |-> "analyzeIssues", text |-> t, done |-> FALSE, result |-> <<>>]

CallAnalyzeIssues ==
  /\ call.fn = "analyzeIssues"
  /\ ~call.done
  /\ call' = [call EXCEPT !.done = TRUE, !.result = analyzeIssues(call.text)]
  /\ UNCHANGED appVars

SpecIssues == InitIssues /\ [][CallAnalyzeIssues]_vars

\* analyzeIssues on the texts of the line scan, with a few short texts
ShortIssueTexts == TextsOver(IssuePieces, MaxIssuePieces - 1)

InitNest ==
  /\ AppInit
  /\ \E t \in NestTexts \cup ShortIssueTexts :
       call = [fn |-> "analyzeIssues", text |-> t, done |-> FALSE, result |-> <<>>]

SpecNest == InitNest /\ [][CallAnalyzeIssues]_vars

MaxCommentTokens == 4
MaxCommentLines == 31
CommentTokens == { <<"/","/">>, <<"/","*">>, <<"*","/">>, <<"#"," ">>, <<"#">> }
\* c times the same token, then as many line breaks as make n lines
CommentTexts ==
  { Flatten([i \in 1..c |-> tok]) \o [i \in 1..(n - 1) |-> "\n"] :
      tok \in CommentTokens, c \in 0..MaxCommentTokens, n \in 1..MaxCommentLines }

InitComments ==
  /\ AppInit
  /\ \E t \in CommentTexts \cup ShortIssueTexts :
       call = [fn |-> "analyzeIssues", text |-> t, done |-> FALSE, result |-> <<>>]

SpecComments == InitComments /\ [][CallAnalyzeIssues]_vars

MaxSplitPieces == 3
\* the pieces of the texts the long-function split is applied to: def also
\* inside a longer word
SplitPieces == LongPieces \cup { <<"d","e","f">> }

InitLong ==
  /\ AppInit
  /\ \E t \in TextsOver(SplitPieces, MaxSplitPieces) \cup ShortIssueTexts :
       call = [fn |-> "analyzeIssues", text |-> t, done |-> FALSE, result |-> <<>>]

SpecLong == InitLong /\ [][CallAnalyzeIssues]_vars

MaxDeepIssues == 5
MaxLongIssues == 4
MaxMagicIssues == 6

Repeat(x, n) == [i \in 1..n |-> x]
IssueOf(kind) == [type |-> kind, detail |-> <<>>]

\* issue lists of any make-up: each kind a chosen number of times
QualityIssueLists ==
  { Repeat(IssueOf("TODOs"), a) \o Repeat(IssueOf("Missing Comments"), b)
      \o Repeat(IssueOf("Magic Numbers"), c) \o Repeat(IssueOf("Deep nesting"), d)
      \o Repeat(IssueOf("Long functions"), e) :
    a \in 0..1, b \in 0..1, c \in 0..MaxMagicIssues, d \in 0..MaxDeepIssues,
    e \in 0..MaxLongIssues }
\* non-empty code texts: no comment, only a comment, one comment line in two,
\* and twenty comment tokens
QualityTexts ==
  { <<"x">>, <<"/","/">>, <<"x","\n","/","/">>,
    [i \in 1..40 |-> "/"] }
QualityDocTexts == { <<>>, <<" ">>, <<"d","o","c">> }
ComplexityLevels == {"Low", "Medium", "High"}

InitQuality ==
  /\ AppInit
  /\ \E t \in QualityTexts, f \in QualityIssueLists, d \in QualityDocTexts,
        c \in ComplexityLevels :
       call = [fn |-> "calculateQualityScore", codeText |-> t, foundIssues |-> f,
               docText |-> d, complexity |-> c, done |-> FALSE, result |-> null]

CallCalculateQualityScore ==
  /\ call.fn = "calculateQualityScore"
  /\ ~call.done
  /\ call' = [call EXCEPT !.done = TRUE,
                !.result = calculateQualityScore(call.codeText, call.foundIssues,
                                                 call.docText, call.complexity)]
  /\ UNCHANGED appVars

SpecQuality == InitQuality /\ [][CallCalculateQualityScore]_vars

\* calculateQualityScore on every issue list and level, for one code text
InitRisk ==
  /\ AppInit
  /\ \E f \in QualityIssueLists, c \in ComplexityLevels :
       call = [fn |-> "calculateQualityScore", codeText |-> <<"x">>, foundIssues |-> f,
               docText |-> <<>>, complexity |-> c, done |-> FALSE, result |-> null]

SpecRisk == InitRisk /\ [][CallCalculateQualityScore]_vars

\* documentation texts: empty, of white space only, and with ink
ReportDocTexts ==
  { <<>>, <<" ">>, <<"\n", "\t", " ">>, <<"d","o","c">>, <<" ","d"," ">> }
ReportIssueLists ==
  { <<>>, <<IssueOf("Missing Comments")>>,
    <<IssueOf("Magic Numbers"), IssueOf("Deep nesting")>> }

\* calculateQualityScore on every documentation text, for a few issue lists
InitReport ==
  /\ AppInit
  /\ \E t \in QualityTexts, f \in ReportIssueLists, d \in ReportDocTexts,
        c \in ComplexityLevels :
       call = [fn |-> "calculateQualityScore", codeText |-> t, foundIssues |-> f,
               docText |-> d, complexity |-> c, done |-> FALSE, result |-> null]

SpecReport == InitReport /\ [][CallCalculateQualityScore]_vars

\* what the analysis effect computes for a code that is not blank, App.js:209-224
Analyze(codeText, docText) ==
  LET lines == LineCount(codeText)
      functions == FunctionCount(codeText)
      complexity == Complexity(lines, functions)
      found == analyzeIssues(codeText)
  IN [codeStats |-> [lines |-> lines, functions |-> functions, complexity |-> complexity],
      issues |-> found,
      qualityReport |-> calculateQualityScore(codeText, found, docText, complexity)]

MaxAnalysisRuns == 2
\* texts with one and with three magic numbers, with a nesting depth of 4 and
\* of 6, with one and with two long functions
OneMagic == <<" ","5"," ">>
ThreeMagic == <<" ","5"," "," ","7"," "," ","9"," ">>
FourDeep == <<"\n","i","f","\n","i","f","\n","i","f","\n","i","f","\n">>
SixDeep == FourDeep \o <<"i","f","\n","i","f","\n">>
OneLong == LongRun \o <<"a">>
TwoLong == OneLong \o <<" ","d","e","f"," ">> \o OneLong
AnalysisTexts ==
  { <<"x">>, <<"/","/">>, <<" ","1","5"," ">>, <<"d","e","f"," ","f">>,
    OneMagic, ThreeMagic, FourDeep, SixDeep,
    OneMagic \o FourDeep \o OneLong, ThreeMagic \o SixDeep \o TwoLong }

InitAnalysis ==
  /\ AppInit
  /\ call = [fn |-> "analysis", runs |-> <<>>]

\* one run of the analysis on a text, after the runs before it
RunAnalysis ==
  /\ call.fn = "analysis"
  /\ Len(call.runs) < MaxAnalysisRuns
  /\ \E t \in AnalysisTexts :
       LET a == Analyze(t, documentation) IN
         call' = [call EXCEPT !.runs =
                    Append(@, [text |-> t, codeStats |-> a.codeStats,
                               issues |-> a.issues, qualityReport |-> a.qualityReport])]
  /\ UNCHANGED appVars

SpecAnalysis == InitAnalysis /\ [][RunAnalysis]_vars

(***************************************************************************)
(* highlightCode as a function of its arguments, App.js:354-394, 754.      *)
(***************************************************************************)
MaxHighlightPieces == 2
HighlightPieces ==
  { <<"<","s","c","r","i","p","t",">">>, <<"&">>, <<"/","/">>, <<"\"">>,
    <<"5">>, <<"i","f">>, <<"\n">>, <<"x">> }
HighlightTexts == TextsOver(HighlightPieces, MaxHighlightPieces)
\* a tag with keywords of its own, and a language without any
HighlightLanguages == {"javascript", "ruby"}

InitHighlight ==
  /\ AppInit
  /\ \E t \in HighlightTexts, l \in HighlightLanguages :
       call = [fn |-> "highlightCode", text |-> t, lang |-> l, done |-> FALSE,
               html |-> <<>>]

CallHighlightCode ==
  /\ call.fn = "highlightCode"
  /\ ~call.done
  /\ call' = [call EXCEPT !.done = TRUE, !.html = highlightCode(call.text, call.lang)]
  /\ UNCHANGED appVars

SpecHighlight == InitHighlight /\ [][CallHighlightCode]_vars

(***************************************************************************)
(* The analysis effect on texts that bring every penalty of the quality    *)
(* score about or not, App.js:209-224                                      *)
(***************************************************************************)
FiveDefs == Flatten([i \in 1..5 |-> <<"d","e","f"," ">>])
SixDefs == FiveDefs \o <<"d","e","f"," ">>
\* what a text is made of, in this order: one character, 6 functions
\* (Medium), 5 more (High with the 6), nesting of depth 4, a long function, a
\* magic number, a comment
ScoreFeatures == << <<"x">>, SixDefs, FiveDefs, FourDeep, OneLong, OneMagic, <<"/","/">> >>
ScoreTexts ==
  { Flatten([i \in 1..Len(ScoreFeatures) |->
               IF i = 1 \/ i \in chosen THEN ScoreFeatures[i] ELSE <<>>]) :
      chosen \in SUBSET (2..Len(ScoreFeatures)) }

InitScores ==
  /\ AppInit
  /\ \E t \in ScoreTexts, d \in {<<>>, <<"d">>} :
       call = [fn |-> "analyze", text |-> t, docText |-> d, done |-> FALSE,
               result |-> null]

CallAnalyze ==
  /\ call.fn = "analyze"
  /\ ~call.done
  /\ call' = [call EXCEPT !.done = TRUE, !.result = Analyze(call.text, call.docText)]
  /\ UNCHANGED appVars

SpecScores == InitScores /\ [][CallAnalyze]_vars

(***************************************************************************)
(* The full pipeline run again and again in one component: every run       *)
(* renders with its text, language and documentation in the state, calls   *)
(* the five functions and leaves its results in the state for the next.    *)
(* App.js:207-231, 236-394, 754                                            *)
(***************************************************************************)
MaxPipelineRuns == 3
PipelineInputs ==
  { [text |-> <<"x">>, language |-> "java", docText |-> <<>>],
    [text |-> <<"x">>, language |-> "php", docText |-> <<>>],
    [text |-> <<"x">>, language |-> "java", docText |-> <<"d">>],
    [text |-> <<"d","e","f"," ","f"," ","5">>, language |-> "java", docText |-> <<>>],
    [text |-> <<"/","/","<">>, language |-> "php", docText |-> <<"d">>] }

InitPipeline ==
  /\ AppInit
  /\ call = [fn |-> "pipeline", runs |-> <<>>]

\* what one run of the pipeline yields on the input in
Pipeline(in) ==
  LET a == Analyze(in.text, in.docText) IN
    [detected |-> detectLanguage(in.text, in.language),
     codeStats |-> a.codeStats,
     issues |-> a.issues,
     qualityReport |-> a.qualityReport,
     previewHtml |-> Chars(highlightCode(in.text, in.language))]

RunPipeline ==
  /\ call.fn = "pipeline"
  /\ Len(call.runs) < MaxPipelineRuns
  /\ \E in \in PipelineInputs :
       LET out == Pipeline(in) IN
         /\ code' = in.text
         /\ language' = in.language
         /\ documentation' = in.docText
         /\ codeStats' = out.codeStats
         /\ showStats' = TRUE
         /\ issues' = out.issues
         /\ qualityReport' = out.qualityReport
         /\ analyzed' = [invoked |-> TRUE, text |-> in.text]
         /\ call' = [call EXCEPT !.runs = Append(@, [input |-> in, output |-> out])]
  /\ UNCHANGED <<history, mounted, effectPending, pendingFile, isGenerating, timers>>

SpecPipeline == InitPipeline /\ [][RunPipeline]_vars

(***************************************************************************)
(* The claims.                                                             *)
(***************************************************************************)
RuleOrder == <<"python", "javascript", "java", "csharp", "cpp", "php">>

\* the rule of a tag matches the text
RuleMatches(tag, text) ==
  LET lower == toLowerCase(text) IN
    CASE tag = "python" -> pythonRule(lower)
      [] tag = "javascript" -> javascriptRule(lower)
      [] tag = "java" -> javaRule(lower)
      [] tag = "csharp" -> csharpRule(lower)
      [] tag = "cpp" -> cppRule(lower)
      [] tag = "php" -> phpRule(lower)

DetectDone == call.fn = "detectLanguage" /\ call.done

\* C1: detectLanguage returns the tag of the first rule, in the order python,
\* javascript, java, csharp, cpp, php, that matches the text; a text with a
\* Python marker and a JavaScript marker gives python, whatever else it holds
\* and whatever the current language is.
C1_FirstRuleWins ==
  DetectDone =>
    /\ \A k \in 1..Len(RuleOrder) :
         ( /\ RuleMatches(RuleOrder[k], call.codeText)
           /\ \A j \in 1..(k - 1) : ~RuleMatches(RuleOrder[j], call.codeText) )
         => call.result = RuleOrder[k]
    /\ ( RuleMatches("python", call.codeText) /\ RuleMatches("javascript", call.codeText) )
         => call.result = "python"

\* a text with a Python, a JavaScript and a Java marker, the current language
\* being javascript, was detected as python
C1_Witness ==
  /\ DetectDone
  /\ RuleMatches("python", call.codeText)
  /\ RuleMatches("javascript", call.codeText)
  /\ RuleMatches("java", call.codeText)
  /\ language = "javascript"
  /\ call.result = "python"

NoRuleMatches(text) == \A k \in 1..Len(RuleOrder) : ~RuleMatches(RuleOrder[k], text)

\* C2: for a text that is empty or matches none of the six rules detectLanguage
\* returns the current language; hence a current language among the six tags
\* gives a result among the six tags for every text.
C2_DefaultsToCurrentLanguage ==
  DetectDone =>
    /\ (call.codeText = <<>> \/ NoRuleMatches(call.codeText)) => call.result = language
    /\ language \in LanguageTags => call.result \in LanguageTags

\* a non-empty text that matches no rule kept the current language php
C2_Witness ==
  /\ DetectDone
  /\ call.codeText # <<>>
  /\ NoRuleMatches(call.codeText)
  /\ language = "php"
  /\ call.result = "php"

\* C3: the language held by the application is one of the six tags in every
\* reachable state.
C3_LanguageIsTag == language \in LanguageTags

StatsDone == call.fn = "Complexity" /\ call.done

\* C4: the complexity level is High exactly when lineCount > 100 or
\* functionCount > 10, otherwise Medium exactly when lineCount > 50 or
\* functionCount > 5, otherwise Low.
C4_ComplexityThresholds ==
  StatsDone =>
    /\ call.result = "High" <=> (call.lines > 100 \/ call.functions > 10)
    /\ call.result = "Medium" <=>
         ( /\ ~(call.lines > 100 \/ call.functions > 10)
           /\ (call.lines > 50 \/ call.functions > 5) )
    /\ call.result = "Low" <=> (call.lines <= 50 /\ call.functions <= 5)

\* the boundary pair (100, 10) was classified Medium
C4_Witness ==
  StatsDone /\ call.lines = 100 /\ call.functions = 10 /\ call.result = "Medium"

IssuesDone == call.fn = "analyzeIssues" /\ call.done

KindIndex(type) == CHOOSE k \in 1..Len(IssueKinds) : IssueKinds[k] = type

HasKind(found, kind) == \E k \in 1..Len(found) : found[k].type = kind

\* C5: the kinds of the issues analyzeIssues returns are among the seven, each
\* at most once, in the order TODOs, Missing Comments, Magic Numbers,
\* Deprecated patterns, Null checks, Deep nesting, Long functions.
C5_IssuesInFixedOrder ==
  IssuesDone =>
    /\ \A k \in 1..Len(call.result) :
         \E n \in 1..Len(IssueKinds) : call.result[k].type = IssueKinds[n]
    /\ \A i, j \in 1..Len(call.result) :
         i < j => KindIndex(call.result[i].type) < KindIndex(call.result[j].type)

\* a text produced all seven kinds
C5_Witness == IssuesDone /\ Len(call.result) = 7

\* the literal lit stands in the text at a, a character that is not an
\* identifier character on each side
BoundedLiteralAt(text, a, lit) ==
  /\ a > 1
  /\ LitAt(text, a, lit)
  /\ a + Len(lit) <= Len(text)
  /\ ~IsWordChar(text[a - 1])
  /\ ~IsWordChar(text[a + Len(lit)])

HasBoundedLiteral(text, lit) == \E a \in 1..Len(text) : BoundedLiteralAt(text, a, lit)

\* the numeric literals of a text: its maximal runs of digits
NumericLiterals(text) ==
  { SubSeq(text, a, Min({b \in a..Len(text) : At(text, b + 1) \notin Digits})) :
      a \in {i \in 1..Len(text) : text[i] \in Digits /\ At(text, i - 1) \notin Digits} }

IsTeen(lit) == Len(lit) = 2 /\ lit[1] = "1"

\* C6 as stated: the literal 42 between non-identifier characters yields a
\* Magic Numbers issue, and a text whose only numeric literals are single
\* digits or values 10-19 yields none.
C6_Original ==
  IssuesDone =>
    /\ HasBoundedLiteral(call.text, <<"4","2">>) => HasKind(call.result, "Magic Numbers")
    /\ (\A lit \in NumericLiterals(call.text) : Len(lit) = 1 \/ IsTeen(lit))
         => ~HasKind(call.result, "Magic Numbers")

\* C6 amended: the literal 42 between non-identifier characters yields a
\* Magic Numbers issue, and so does a single digit 2-9 such as 5; a text whose
\* only numeric literals are 0, 1 or values 10-19 yields none.
C6_MagicNumbers ==
  IssuesDone =>
    /\ HasBoundedLiteral(call.text, <<"4","2">>) => HasKind(call.result, "Magic Numbers")
    /\ HasBoundedLiteral(call.text, <<"5">>) => HasKind(call.result, "Magic Numbers")
    /\ (\A lit \in NumericLiterals(call.text) : lit \in {<<"0">>, <<"1">>} \/ IsTeen(lit))
         => ~HasKind(call.result, "Magic Numbers")

\* a text whose numeric literals are a 1 and a 15, each between non-identifier
\* characters, was scanned and has no Magic Numbers issue
C6_Witness ==
  /\ IssuesDone
  /\ HasBoundedLiteral(call.text, <<"1","5">>)
  /\ \A lit \in NumericLiterals(call.text) : lit \in {<<"0">>, <<"1">>} \/ IsTeen(lit)
  /\ ~HasKind(call.result, "Magic Numbers")

\* the text compares with null: == or != , any white space, null
ComparesWithNull(text) ==
  \E i \in 1..Len(text) :
    /\ LitAt(text, i, <<"=","=">>) \/ LitAt(text, i, <<"!","=">>)
    /\ \E k \in (i + 2)..Len(text) :
         /\ LitAt(text, k, <<"n","u","l","l">>)
         /\ \A j \in (i + 2)..(k - 1) : text[j] \in WhiteSpace

\* C7 as stated: a text with null and no comparison with null yields a Null
\* checks issue, and a text with null and "!= null" yields none.
C7_Original ==
  IssuesDone =>
    /\ (Contains(call.text, <<"n","u","l","l">>) /\ ~ComparesWithNull(call.text))
         => HasKind(call.result, "Null checks")
    /\ ( /\ Contains(call.text, <<"n","u","l","l">>)
         /\ Contains(call.text, <<"!","="," ","n","u","l","l">>) )
         => ~HasKind(call.result, "Null checks")

\* C7 amended: a text with null, no comparison with null and neither "is None"
\* nor "is not None" yields a Null checks issue, and a text with null and
\* "!= null" yields none.
C7_NullChecks ==
  IssuesDone =>
    /\ ( /\ Contains(call.text, <<"n","u","l","l">>)
         /\ ~ComparesWithNull(call.text)
         /\ ~Contains(call.text, <<"i","s"," ","N","o","n","e">>)
         /\ ~Contains(call.text, <<"i","s"," ","n","o","t"," ","N","o","n","e">>) )
         => HasKind(call.result, "Null checks")
    /\ ( /\ Contains(call.text, <<"n","u","l","l">>)
         /\ Contains(call.text, <<"!","="," ","n","u","l","l">>) )
         => ~HasKind(call.result, "Null checks")

\* a text with null and "!= null" was scanned and has no Null checks issue
C7_Witness ==
  /\ IssuesDone
  /\ Contains(call.text, <<"!","="," ","n","u","l","l">>)
  /\ ~HasKind(call.result, "Null checks")

\* four lines in a row open a block and none of them closes one
HasFourOpenLines(text) ==
  LET ls == SplitLines(text) IN
    \E k \in 1..(Len(ls) - 3) :
      \A j \in k..(k + 3) : OpensBlock(ls[j]) /\ ~ClosesBlock(ls[j])

\* C8: four lines in a row with one of the words if/for/while/switch and
\* without } or the word end make the line scan reach maxDepth >= 4 and
\* analyzeIssues emit a Deep nesting issue whose detail holds that maxDepth;
\* a Deep nesting issue is emitted only when maxDepth >= 4.
C8_DeepNesting ==
  IssuesDone =>
    /\ HasFourOpenLines(call.text) =>
         /\ MaxNestingDepth(call.text) >= 4
         /\ \E k \in 1..Len(call.result) :
              /\ call.result[k].type = "Deep nesting"
              /\ call.result[k].detail =
                   <<"Max nesting depth ~", MaxNestingDepth(call.text)>>
    /\ HasKind(call.result, "Deep nesting") => MaxNestingDepth(call.text) >= 4

\* a text whose first line closes a block and whose next four lines open one
\* was scanned and has a Deep nesting issue
C8_Witness ==
  /\ IssuesDone
  /\ HasFourOpenLines(call.text)
  /\ ClosesBlock(SplitLines(call.text)[1])
  /\ HasKind(call.result, "Deep nesting")

QualityDone == call.fn = "calculateQualityScore" /\ call.done

\* C9: for a non-empty code text and any issue list, documentation text and
\* complexity level, the six fields of the report are integers in 0..100, and
\* complexityScore and clarityScore are at least 10.
C9_ScoresInRange ==
  QualityDone =>
    /\ call.result.maintainability \in 0..100
    /\ call.result.commentScore \in 0..100
    /\ call.result.complexityScore \in 10..100
    /\ call.result.clarityScore \in 10..100
    /\ call.result.docCompleteness \in 0..100
    /\ call.result.risk \in 0..100

\* a report whose complexityScore is held by the floor of 10 and whose risk
\* and docCompleteness are held by the cap of 100
C9_Witness ==
  /\ QualityDone
  /\ call.result.complexityScore = 10
  /\ call.result.risk = 100
  /\ call.result.docCompleteness = 100

\* C10: when the code is blank and the analysis effect has run, the state
\* holds the defaults (stats 0/0/Low, no issue, no quality report, stats panel
\* hidden), and the analysis functions were never invoked on a blank code.
C10_BlankCodeDefaults ==
  /\ (~effectPending /\ ~TrimNonEmpty(code)) =>
       /\ codeStats = DefaultStats
       /\ issues = <<>>
       /\ qualityReport = null
       /\ showStats = FALSE
  /\ analyzed.invoked => TrimNonEmpty(analyzed.text)

\* a whitespace-only code after a code that was analysed, the effect having run
C10_Witness ==
  /\ mounted
  /\ ~effectPending
  /\ code # <<>>
  /\ ~TrimNonEmpty(code)
  /\ analyzed.invoked

RECURSIVE NestStates(_, _)
\* the values of depth and maxDepth at the end of each of the first k lines
NestStates(linesArr, k) ==
  IF k = 0 THEN <<>>
  ELSE LET prev == NestStates(linesArr, k - 1)
           last == IF k = 1 THEN [depth |-> 0, maxDepth |-> 0] ELSE prev[k - 1]
       IN Append(prev, NestStep(last, linesArr[k]))

\* C15: in the deep-nesting line scan depth starts at 0 and is never negative
\* after a line; on each line the increment (a word for/while/if/switch) is
\* applied before the decrement (a } or the word end), which is clamped at 0;
\* maxDepth never decreases and is the largest depth seen at the end of a line.
C15_NestingScan ==
  IssuesDone =>
    LET ls == SplitLines(call.text)
        sts == NestStates(ls, Len(ls))
        depthBefore(k) == IF k = 1 THEN 0 ELSE sts[k - 1].depth
        maxBefore(k) == IF k = 1 THEN 0 ELSE sts[k - 1].maxDepth
    IN /\ NestScan(ls, 0) = [depth |-> 0, maxDepth |-> 0]
       /\ \A k \in 1..Len(ls) :
            LET opened == depthBefore(k) + (IF OpensBlock(ls[k]) THEN 1 ELSE 0) IN
              /\ sts[k].depth >= 0
              /\ sts[k].depth =
                   IF ClosesBlock(ls[k]) THEN MaxOf(0, opened - 1) ELSE opened
              /\ sts[k].maxDepth >= maxBefore(k)
              /\ \A j \in 1..k : sts[k].maxDepth >= sts[j].depth
              /\ sts[k].maxDepth = 0 \/ \E j \in 1..k : sts[k].maxDepth = sts[j].depth
       /\ MaxNestingDepth(call.text) = sts[Len(ls)].maxDepth

\* a scan whose first line opens and closes a block at depth 0 and leaves the
\* depth at 0, in which a later line closes a block at depth 0, and which
\* reaches a depth of 2
C15_Witness ==
  /\ IssuesDone
  /\ call.text # <<>>
  /\ LET ls == SplitLines(call.text)
         sts == NestStates(ls, Len(ls))
     IN /\ OpensBlock(ls[1]) /\ ClosesBlock(ls[1]) /\ sts[1].depth = 0
        /\ \E k \in 2..Len(ls) :
             /\ ClosesBlock(ls[k]) /\ ~OpensBlock(ls[k])
             /\ sts[k - 1].depth = 0 /\ sts[k].depth = 0
        /\ sts[Len(ls)].maxDepth >= 2

\* none of the comment-like tokens occurs in the text
NoCommentToken(text) ==
  /\ ~Contains(text, <<"/","*">>) /\ ~Contains(text, <<"*","/">>)
  /\ ~Contains(text, <<"/","/">>) /\ ~Contains(text, <<"#"," ">>)

\* C16: for a non-empty text analyzeIssues emits a Missing Comments issue
\* exactly when the number of comment-like tokens is below
\* max(1, floor(lineCount/10)); its detail holds that commentCount and that
\* lineCount; every non-empty text without a comment token has the issue.
C16_MissingComments ==
  (IssuesDone /\ call.text # <<>>) =>
    LET commentCount == CommentCount(call.text)
        lineCount == LineCount(call.text)
        threshold == IF lineCount \div 10 > 1 THEN lineCount \div 10 ELSE 1
    IN /\ HasKind(call.result, "Missing Comments") <=> commentCount < threshold
       /\ \A k \in 1..Len(call.result) :
            call.result[k].type = "Missing Comments" =>
              call.result[k].detail =
                <<commentCount, " comments for ", lineCount, " lines">>
       /\ NoCommentToken(call.text) => HasKind(call.result, "Missing Comments")

\* a text of twenty lines with one comment token has the issue, its detail
\* saying 1 comment for 20 lines
C16_Witness ==
  /\ IssuesDone
  /\ LineCount(call.text) = 20
  /\ \E k \in 1..Len(call.result) :
       /\ call.result[k].type = "Missing Comments"
       /\ call.result[k].detail = <<1, " comments for ", 20, " lines">>

\* position i of the text lies in a whole-word occurrence of one of the four
\* delimiters of the long-function split
InDelimiter(text, i) ==
  \E w \in { <<"f","u","n","c","t","i","o","n">>, <<"d","e","f">>,
              <<"p","u","b","l","i","c">>, <<"p","r","i","v","a","t","e">> } :
    \E a \in (i - Len(w) + 1)..i : WordAt(text, a, w)

\* the positions at which a fragment of more than 500 characters starts: the
\* fragments are the maximal stretches outside every delimiter
LongFragmentStarts(text) ==
  { a \in 1..(Len(text) - 500) :
      /\ a = 1 \/ InDelimiter(text, a - 1)
      /\ \A k \in a..(a + 500) : ~InDelimiter(text, k) }

\* C20: analyzeIssues emits a Long functions issue exactly when splitting the
\* text at every whole-word function, def, public or private leaves a
\* fragment of more than 500 characters; the detail holds the number of such
\* fragments; a text of at most 500 characters never has the issue.
C20_LongFunctions ==
  IssuesDone =>
    LET n == Cardinality(LongFragmentStarts(call.text)) IN
      /\ HasKind(call.result, "Long functions") <=> n > 0
      /\ \A k \in 1..Len(call.result) :
           call.result[k].type = "Long functions" =>
             call.result[k].detail = <<n, " very long function(s) detected">>
      /\ Len(call.text) <= 500 => ~HasKind(call.result, "Long functions")

\* a text with two fragments of 501 characters around a delimiter, a third
\* fragment being shorter, has the issue with 2 in its detail
C20_Witness ==
  /\ IssuesDone
  /\ Cardinality(LongFragmentStarts(call.text)) = 2
  /\ \E i \in 1..Len(call.text) : InDelimiter(call.text, i)
  /\ \E k \in 1..Len(call.result) :
       call.result[k] = [type |-> "Long functions",
                         detail |-> <<2, " very long function(s) detected">>]

\* the number an issue of the kind holds in its detail, 0 without such an issue
DetailCount(found, kind) ==
  LET hit == {k \in 1..Len(found) : found[k].type = kind} IN
    IF hit = {} THEN 0
    ELSE LET d == found[Min(hit)].detail IN
      IF kind = "Deep nesting" THEN d[2] ELSE d[1]

PenaltyKinds == {"Magic Numbers", "Deep nesting", "Long functions"}

\* C17: for the issue list analyzeIssues produced for a text, magicPenalty is
\* 0 or 8, nestingPenalty 0 or 10 and longFuncPenalty 0 or 10, the non-zero
\* value exactly when an issue of the kind is present; two texts with the same
\* kinds present receive the same three penalties whatever numbers the details
\* hold; the scores of the report are computed from these penalties.
C17_PenaltyByPresence ==
  call.fn = "analysis" =>
    /\ \A i \in 1..Len(call.runs) :
         LET r == call.runs[i] IN
           /\ magicPenalty(r.issues) =
                IF HasKind(r.issues, "Magic Numbers") THEN 8 ELSE 0
           /\ nestingPenalty(r.issues) =
                IF HasKind(r.issues, "Deep nesting") THEN 10 ELSE 0
           /\ longFuncPenalty(r.issues) =
                IF HasKind(r.issues, "Long functions") THEN 10 ELSE 0
           /\ r.qualityReport.clarityScore =
                100 - magicPenalty(r.issues)
                    - (IF HasKind(r.issues, "Missing Comments") THEN 25 ELSE 0)
           /\ r.qualityReport.complexityScore =
                100 - complexityPenalty(r.codeStats.complexity)
                    - nestingPenalty(r.issues) - longFuncPenalty(r.issues)
    /\ \A i, j \in 1..Len(call.runs) :
         LET a == call.runs[i].issues
             b == call.runs[j].issues
         IN (\A kind \in PenaltyKinds : HasKind(a, kind) <=> HasKind(b, kind)) =>
              /\ magicPenalty(a) = magicPenalty(b)
              /\ nestingPenalty(a) = nestingPenalty(b)
              /\ longFuncPenalty(a) = longFuncPenalty(b)

\* two texts were analysed, one with one magic number, a depth of 4 and one
\* long function, the other with three, a depth of 6 and two: both have the
\* penalties 8, 10 and 10
C17_Witness ==
  /\ call.fn = "analysis"
  /\ Len(call.runs) = 2
  /\ LET a == call.runs[1].issues
         b == call.runs[2].issues
     IN /\ DetailCount(a, "Magic Numbers") = 1 /\ DetailCount(b, "Magic Numbers") = 3
        /\ DetailCount(a, "Deep nesting") = 4 /\ DetailCount(b, "Deep nesting") = 6
        /\ DetailCount(a, "Long functions") = 1 /\ DetailCount(b, "Long functions") = 2
        /\ magicPenalty(a) = 8 /\ magicPenalty(b) = 8
        /\ nestingPenalty(a) = 10 /\ nestingPenalty(b) = 10
        /\ longFuncPenalty(a) = 10 /\ longFuncPenalty(b) = 10

\* the next complexity level, High being the last
NextLevel(complexity) ==
  IF complexity = "Low" THEN "Medium" ELSE "High"

\* C18: risk is min(100, 15 * (number of issue records) + complexityPenalty),
\* the penalty being 30 for High, 15 for Medium and 5 for Low; it is at least
\* 5, and neither one more issue record nor the next complexity level lowers it.
C18_Risk ==
  QualityDone =>
    LET penalty == CASE call.complexity = "High" -> 30
                     [] call.complexity = "Medium" -> 15
                     [] call.complexity = "Low" -> 5
        sum == 15 * Len(call.foundIssues) + penalty
        more == calculateQualityScore(call.codeText,
                                      Append(call.foundIssues, IssueOf("TODOs")),
                                      call.docText, call.complexity)
        higher == calculateQualityScore(call.codeText, call.foundIssues,
                                        call.docText, NextLevel(call.complexity))
    IN /\ call.result.risk = IF sum < 100 THEN sum ELSE 100
       /\ call.result.risk >= 5
       /\ more.risk >= call.result.risk
       /\ higher.risk >= call.result.risk

\* a report for three issue records and the level Medium, whose risk of 60 is
\* below the cap
C18_Witness ==
  /\ QualityDone
  /\ Len(call.foundIssues) = 3
  /\ call.complexity = "Medium"
  /\ call.result.risk = 60

\* the report without its docCompleteness
WithoutDoc(report) ==
  <<report.maintainability, report.commentScore, report.complexityScore,
    report.clarityScore, report.risk>>

\* the text has a character that trim keeps
HasInk(docText) == \E i \in 1..Len(docText) : docText[i] \notin WhiteSpace

\* C19: docCompleteness is min(100, 5 * commentCount + docPresence), docPresence
\* being 30 when the documentation text is non-empty after trimming and 0
\* otherwise; another documentation text changes no other field of the
\* report, and not docCompleteness either when both texts are blank.
C19_DocCompleteness ==
  QualityDone =>
    LET sum == 5 * CommentCount(call.codeText) + (IF HasInk(call.docText) THEN 30 ELSE 0)
    IN /\ call.result.docCompleteness = IF sum < 100 THEN sum ELSE 100
       /\ \A d \in ReportDocTexts :
            LET other == calculateQualityScore(call.codeText, call.foundIssues, d,
                                               call.complexity)
            IN /\ WithoutDoc(other) = WithoutDoc(call.result)
               /\ (~HasInk(d) /\ ~HasInk(call.docText)) =>
                    other.docCompleteness = call.result.docCompleteness

\* a report for a code with one comment token and a documentation text of
\* white space only: docCompleteness is 5
C19_Witness ==
  /\ QualityDone
  /\ call.docText # <<>>
  /\ ~HasInk(call.docText)
  /\ CommentCount(call.codeText) = 1
  /\ call.result.docCompleteness = 5

\* what the analysis effect stores for a code and a documentation text
FromScratch(codeText, docText) ==
  IF TrimNonEmpty(codeText)
    THEN Analyze(codeText, docText)
    ELSE [codeStats |-> DefaultStats, issues |-> <<>>, qualityReport |-> null]

\* C13: after any sequence of changes to the code and the documentation
\* (typing, paste, file load, example load, history load, the reset of the
\* documentation by prompt generation), once the analysis effect has run the
\* stored stats, issues and quality report are those of analysing the current
\* code and the current documentation from scratch.
C13_AnalysisIsCurrent ==
  (mounted /\ ~effectPending) =>
    [codeStats |-> codeStats, issues |-> issues, qualityReport |-> qualityReport]
      = FromScratch(code, documentation)

\* an entry of the history was written by a prompt generation that reset a
\* non-empty documentation, and the report in the state is the one of the
\* empty documentation: its docCompleteness holds no docPresence
C13_Witness ==
  /\ mounted
  /\ ~effectPending
  /\ history # <<>>
  /\ documentation = <<>>
  /\ code = exampleCode.java
  /\ qualityReport # null
  /\ qualityReport = Analyze(code, <<>>).qualityReport
  /\ qualityReport # Analyze(code, <<"d","o","c">>).qualityReport

\* the characters of the markup that stem from the input text, in order
InputChars(h) == Chars(SelectSeq(h, LAMBDA e : ~e.markup))

Entities == { <<"&","a","m","p",";">>, <<"&","l","t",";">>, <<"&","g","t",";">> }

ScriptTag == <<"<","s","c","r","i","p","t",">">>

Highlighted == call.fn = "highlightCode" /\ call.done

\* C11: in the markup highlightCode returns, no character that stems from the
\* input is a bare < or >, every & that stems from the input starts one of
\* the entities &amp; &lt; &gt;, so every bare < was written by the
\* highlighter, and the markup holds no <script> tag.
C11_HighlighterSafety ==
  Highlighted =>
    LET h == call.html
        s == Chars(h)
    IN /\ \A i \in 1..Len(h) :
            ~h[i].markup =>
              /\ h[i].c \notin {"<", ">"}
              /\ h[i].c = "&" => \E e \in Entities : LitAt(s, i, e)
       /\ \A i \in 1..Len(h) : ~LitAt(s, i, ScriptTag)

\* a <script> tag in a comment: it is escaped, and the comment step escapes
\* it a second time
C11_Witness ==
  /\ Highlighted
  /\ call.text = <<"/","/">> \o ScriptTag
  /\ InputChars(call.html) =
       <<"/","/","&","a","m","p",";","l","t",";","s","c","r","i","p","t",
         "&","a","m","p",";","g","t",";">>
  /\ \E i \in 1..Len(call.html) : call.html[i].markup /\ call.html[i].c = "<"

\* C12: without the markup the highlighter wrote, the output of highlightCode
\* on a non-empty text is the text escaped once.
C12_TextPreserved ==
  (Highlighted /\ call.text # <<>>) =>
    InputChars(call.html) = Chars(esc(Tagged(call.text, FALSE)))

HasComment(text) ==
  LET s == Chars(esc(Tagged(text, FALSE))) IN
    \E i \in 1..Len(s) : CommentLen(s, i) > 0

\* lit stands at i in the markup h and the highlighter wrote all of it
MarkupAt(h, i, lit) ==
  /\ LitAt(Chars(h), i, lit)
  /\ \A k \in i..(i + Len(lit) - 1) : h[k].markup

\* C21: for every text with a comment, later steps match inside the span the
\* comment step inserted: the number step wraps the 400 of its class name
\* and the keyword step wraps its attribute name class, so the opening tag
\* of the comment span is not in the output as it was inserted.
C21_InsertedMarkupRematched ==
  (Highlighted /\ HasComment(call.text)) =>
    LET h == call.html IN
      /\ \A i \in 1..Len(h) : ~LitAt(Chars(h), i, CommentSpan)
      /\ \E i \in 1..Len(h) : MarkupAt(h, i, <<"\"",">","4","0","0">> \o SpanClose)
      /\ \E i \in 1..Len(h) :
           MarkupAt(h, i, <<"<","s","p","a","n"," ">> \o KeywordSpan
                            \o <<"c","l","a","s","s">> \o SpanClose)

\* a text that is one comment and holds no word and no digit of its own
C21_Witness ==
  /\ Highlighted
  /\ call.text = <<"/","/">>
  /\ \E i \in 1..Len(call.html) :
       MarkupAt(call.html, i, <<"t","e","x","t","-","s","l","a","t","e","-","<","s","p","a","n"," ">>)

\* C22: on the issues analyzeIssues finds in the same text, complexityScore
\* is between 50 and 95 and clarityScore between 67 and 100, so the floor of
\* 10 is not reached.
C22_FloorsNotReached ==
  (call.fn = "analyze" /\ call.done) =>
    /\ call.result.qualityReport.complexityScore \in 50..95
    /\ call.result.qualityReport.clarityScore \in 67..100

\* every penalty at once: High complexity, deep nesting, a long function, a
\* magic number and no comment
C22_Witness ==
  /\ call.fn = "analyze"
  /\ call.done
  /\ call.result.codeStats.complexity = "High"
  /\ {"Deep nesting", "Long functions", "Magic Numbers", "Missing Comments"}
       \subseteq {call.result.issues[k].type : k \in 1..Len(call.result.issues)}
  /\ call.result.qualityReport.complexityScore = 50
  /\ call.result.qualityReport.clarityScore = 67

\* the prompt generations whose timer has not fired
PendingGenerations == {i \in 1..Len(timers) : timers[i].kind = "generate"}

\* C23: while a prompt generation is pending isGenerating holds (the
\* Generate button is disabled), and at most one generation is pending.
C23_GeneratingWhilePending ==
  /\ PendingGenerations # {} => isGenerating
  /\ Cardinality(PendingGenerations) <= 1

\* no rule of detectLanguage matches the text
MatchesNoRule(text) == detectLanguage(text, "") = ""

\* C24: when a file whose text matches no detection rule finishes loading,
\* the language selected at that moment stays selected.
C24_LoadedFileKeepsLanguage ==
  [][\A f \in pendingFile :
       (pendingFile' = pendingFile \ {f} /\ code' = f.text /\ MatchesNoRule(f.text))
         => language' = language]_vars

\* C25: the history of the session, and what is kept of it for the next page
\* load, never holds more than 100 entries.
C25_HistoryAtMost100 ==
  /\ Len(history) <= 100
  /\ call.fn = "localStorage" => Len(call.stored) <= 100

\* a page load that finds 100 entries in localStorage: nothing was typed or
\* generated since the page was loaded
C25_Witness ==
  /\ call.fn = "localStorage"
  /\ mounted
  /\ code = <<>>
  /\ Len(history) = 100
  /\ call.stored = history

====
